---- MODULE Spec2Model ----
(***************************************************************************)
(* A model of preqs: the requirements.txt generator (preqs/preqs.py).      *)
(*                                                                         *)
(* Strings are sequences of one-character strings, so that the string      *)
(* operations of the source (split, partition, splitext, `in`, sorted)     *)
(* are computed character by character, as Python computes them.           *)
(***************************************************************************)
EXTENDS Integers, Sequences, FiniteSets, TLC

(***************************************************************************)
(* Bounds of the model.                                                    *)
(***************************************************************************)
\* The largest number of files the modelled file system holds.
MaxFiles == 2
\* The number of Requirements instances (program runs) in one behaviour.
MaxRuns == 2

(***************************************************************************)
(* Python string primitives.                                               *)
(***************************************************************************)
\* The characters of the model, in code point order (str comparison).
CharOrder ==
    <<"\n", " ", "#", "'", "(", ")", "*", "+", ",", "-", ".", "/",
      "0", "1", "2", "3", "4", "5", "6", "7", "8", "9", ":", "<", "=", ">",
      "G", "T", "U", "_",
      "a", "b", "c", "d", "e", "f", "g", "h", "i", "j", "k", "l", "m", "n",
      "o", "p", "q", "r", "s", "t", "u", "v", "w", "x", "y", "z">>

\* ord(c)
Ord(c) == CHOOSE i \in 1..Len(CharOrder) : CharOrder[i] = c

\* a < b on str: the first differing character decides, a proper prefix is
\* smaller.
RECURSIVE StrLess(_, _)
StrLess(a, b) ==
    IF b = <<>> THEN FALSE
    ELSE IF a = <<>> THEN TRUE
    ELSE IF Head(a) = Head(b) THEN StrLess(Tail(a), Tail(b))
    ELSE Ord(Head(a)) < Ord(Head(b))

\* s.startswith(p)
StartsWith(s, p) == Len(p) <= Len(s) /\ SubSeq(s, 1, Len(p)) = p

\* s.endswith(p)
EndsWith(s, p) ==
    Len(p) <= Len(s) /\ SubSeq(s, Len(s) - Len(p) + 1, Len(s)) = p

\* sub in s
Contains(sub, s) ==
    \E i \in 1..(Len(s) - Len(sub) + 1) : SubSeq(s, i, i + Len(sub) - 1) = sub

\* The index of the first character c of s, or 0.
IndexOf(s, c) ==
    LET at == {i \in 1..Len(s) : s[i] = c}
    IN  IF at = {} THEN 0 ELSE CHOOSE i \in at : \A j \in at : i <= j

\* s.split(c), c one character: a list of the pieces between the c's.
RECURSIVE Split(_, _)
Split(s, c) ==
    LET i == IndexOf(s, c)
    IN  IF i = 0 THEN <<s>>
        ELSE <<SubSeq(s, 1, i - 1)>> \o Split(SubSeq(s, i + 1, Len(s)), c)

\* c.join(parts)
RECURSIVE Join(_, _)
Join(parts, c) ==
    IF parts = <<>> THEN <<>>
    ELSE IF Len(parts) = 1 THEN parts[1]
    ELSE parts[1] \o c \o Join(Tail(parts), c)

\* s.partition('.')[0]
PartitionHead(s) ==
    LET i == IndexOf(s, ".")
    IN  IF i = 0 THEN s ELSE SubSeq(s, 1, i - 1)

\* The set of the elements of a sequence.
Range(q) == {q[i] : i \in 1..Len(q)}

\* os.path.join(a, b) for a relative b.
PathJoin(a, b) == a \o <<"/">> \o b

\* os.path.basename(p)
Basename(p) == LET parts == Split(p, "/") IN parts[Len(parts)]

\* os.path.splitext(p)[0]: the part before the last dot of p, where the
\* dots that lead p are not an extension's dot.
SplitextRoot(p) ==
    LET dots == {i \in 1..Len(p) : p[i] = "."}
        lead == {i \in 1..Len(p) : \A j \in 1..i : p[j] = "."}
        real == dots \ lead
    IN  IF real = {} THEN p
        ELSE SubSeq(p, 1, (CHOOSE i \in real : \A j \in real : j <= i) - 1)

\* os.path.normpath(p) for an absolute POSIX path: empty and '.' components
\* are dropped, '..' drops the component before it.
RECURSIVE NormParts(_, _)
NormParts(parts, acc) ==
    IF parts = <<>> THEN acc
    ELSE LET h == Head(parts)
         IN  IF h = <<>> \/ h = <<".">> THEN NormParts(Tail(parts), acc)
             ELSE IF h = <<".", ".">>
                  THEN NormParts(Tail(parts),
                                 IF acc = <<>> THEN acc
                                 ELSE SubSeq(acc, 1, Len(acc) - 1))
                  ELSE NormParts(Tail(parts), Append(acc, h))

Normpath(p) == <<"/">> \o Join(NormParts(Split(p, "/"), <<>>), <<"/">>)

(***************************************************************************)
(* Exit codes (class ExCode).                                              *)
(***************************************************************************)
GEN_OK == 0
ERR_EXIST == 10
ERR_FILES == 20
ERR_IMPTS == 30
ERR_CLEAN == 40
ERR_VERSN == 50
ERR_WRITE == 60
ERR_INITL == 255

\* Python's None, and the absence of a file.
None == <<"None">>
NoFile == <<"NoFile">>

(***************************************************************************)
(* String constants of the source and of the modelled environment.         *)
(***************************************************************************)
s_os == <<"o", "s">>
s_sys == <<"s", "y", "s">>
s_requests == <<"r", "e", "q", "u", "e", "s", "t", "s">>
s_six == <<"s", "i", "x">>
s_attr == <<"a", "t", "t", "r">>
s_mypkg == <<"m", "y", "p", "k", "g">>
s_mypkg_sub == <<"m", "y", "p", "k", "g", ".", "s", "u", "b">>
s_os_path == <<"o", "s", ".", "p", "a", "t", "h">>
s_w == <<"w">>
s_p == <<"p">>

\* 'requirements.txt' (_file_not_exists)
REQUIREMENTS_TXT ==
    <<"r", "e", "q", "u", "i", "r", "e", "m", "e", "n", "t", "s", ".", "t", "x", "t">>

\* _FILE_EXTS = ['*.py', '*.pyw']
FILE_EXTS == << <<"*", ".", "p", "y">>, <<"*", ".", "p", "y", "w">> >>

\* The names _IGNORE_DIRS is built from.
IGNORE_NAMES ==
    << <<".", "i", "p", "y", "n", "b", "_", "c", "h", "e", "c", "k", "p", "o", "i", "n", "t", "s">>,
       <<".", "g", "i", "t">>,
       <<".", "s", "v", "n">>,
       <<".", "t", "o", "x">>,
       <<"t", "e", "s", "t">>,
       <<"t", "e", "s", "t", "s">>,
       <<"_", "_", "p", "y", "c", "a", "c", "h", "e", "_", "_">> >>

\* 'Unknown or not installed' (_get_installed_version)
UNKNOWN ==
    <<"U", "n", "k", "n", "o", "w", "n", " ", "o", "r", " ", "n", "o", "t", " ",
      "i", "n", "s", "t", "a", "l", "l", "e", "d">>

\* 'Unknown' (_write)
s_Unknown == <<"U", "n", "k", "n", "o", "w", "n">>

\* '# Generated by: preqs v' (_write)
GENBY_PREFIX ==
    <<"#", " ", "G", "e", "n", "e", "r", "a", "t", "e", "d", " ", "b", "y", ":", " ",
      "p", "r", "e", "q", "s", " ", "v">>

\* __version__ of the package (module _version).
PreqsVersion == <<"0", ".", "1">>

\* sys.stdlib_module_names, as far as the modelled sources import from it.
StdlibModuleNames == {s_os, s_sys}

\* The working directory of the process, and the directories a run can be
\* pointed at (the PATH argument, made absolute by realpath).
Cwd == <<"/">> \o s_w
Dirs == {Cwd, <<"/">> \o s_six \o <<"/">> \o s_p}

\* os.path.realpath(p) of a relative name p, in a tree without symlinks.
Realpath(p) == IF p # <<>> /\ Head(p) = "/" THEN Normpath(p)
               ELSE Normpath(PathJoin(Cwd, p))

\* Versions a distribution can be installed with.
v_1_0 == <<"1", ".", "0">>
v_2_10 == <<"2", ".", "1", "0">>
v_local == <<"1", ".", "0", "+", "U", "n", "k", "n", "o", "w", "n">>

\* The installed-package environments: for each distribution its version, or
\* None when it is not installed. Nothing else is installed.
Environments ==
    { [requests |-> r, six |-> v_1_0, attr |-> v_1_0] :
        r \in {None, v_2_10, v_local} }

\* A manifest left by an earlier run or by the user.
OldManifest ==
    s_six \o <<"=", "=">> \o v_1_0 \o <<"\n">>

(***************************************************************************)
(* Source files: a path and what ast.parse makes of the file's text, the   *)
(* list of its import nodes, unless the text does not parse.               *)
(***************************************************************************)
Import(names) == [kind |-> "Import", names |-> names, module |-> None, level |-> 0]
ImportFrom(module, level) ==
    [kind |-> "ImportFrom", names |-> <<>>, module |-> module, level |-> level]

\* parses is FALSE for a file ast.parse raises SyntaxError on.
File(dir, name, parses, ast) ==
    [path |-> PathJoin(dir, name), parses |-> parses, ast |-> ast]

\* import os / import requests / import mypkg.sub
f_main ==
    File(Cwd, <<"m", "a", "i", "n", ".", "p", "y">>, TRUE,
         <<Import(<<s_os>>), Import(<<s_requests>>), Import(<<s_mypkg_sub>>)>>)
\* from . import x / import os
f_sub ==
    File(PathJoin(Cwd, s_mypkg), <<"s", "u", "b", ".", "p", "y">>, TRUE,
         <<ImportFrom(None, 1), Import(<<s_os>>)>>)
\* import six, sys
f_tests ==
    File(PathJoin(Cwd, <<"t", "e", "s", "t", "s">>), <<"t", ".", "p", "y">>, TRUE,
         <<Import(<<s_six, s_sys>>)>>)
\* import requests as r / from os.path import join
f_testing ==
    File(PathJoin(Cwd, <<"t", "e", "s", "t", "i", "n", "g">>), <<"u", ".", "p", "y", "w">>, TRUE,
         <<Import(<<s_requests>>), ImportFrom(s_os_path, 0)>>)
\* no import statement
f_empty == File(Cwd, <<"e", ".", "p", "y">>, TRUE, <<>>)
\* a file that does not parse
f_bad == File(Cwd, <<"b", ".", "p", "y">>, FALSE, <<>>)
\* import six / from requests import get / from os.path import join /
\* import attr, in a project below a directory named six
f_six ==
    File(<<"/">> \o s_six \o <<"/">> \o s_p, <<"a", ".", "p", "y">>, TRUE,
         <<Import(<<s_six>>), ImportFrom(s_requests, 0), ImportFrom(s_os_path, 0),
           Import(<<s_attr>>)>>)
\* not a Python module
f_notes == File(Cwd, <<"n", ".", "t", "x", "t">>, TRUE, <<>>)

\* The files a file system of the model can hold, by a short name each.
FilePool == {"main", "sub", "tests", "testing", "empty", "bad", "six", "notes"}

\* The file of a name.
SourceFile(id) ==
    CASE id = "main" -> f_main
      [] id = "sub" -> f_sub
      [] id = "tests" -> f_tests
      [] id = "testing" -> f_testing
      [] id = "empty" -> f_empty
      [] id = "bad" -> f_bad
      [] id = "six" -> f_six
      [] id = "notes" -> f_notes

\* The file systems of the model.
Trees == {t \in SUBSET FilePool : Cardinality(t) <= MaxFiles}

\* The files of a file system.
FilesOf(tr) == { SourceFile(id) : id \in tr }

(***************************************************************************)
(* CodeParser.                                                             *)
(***************************************************************************)
\* CodeParser._read_nodes: the names of the Import nodes and the module of
\* the ImportFrom nodes of level 0.
ReadNodes(nodes) ==
    UNION { IF node.kind = "Import" THEN Range(node.names)
            ELSE IF node.level = 0 THEN {node.module}
            ELSE {} : node \in Range(nodes) }

\* CodeParser.extract_imports of a file that parses.
ExtractImports(f) == ReadNodes(f.ast)

(***************************************************************************)
(* Requirements: the functions of the stages.                              *)
(***************************************************************************)
\* The class attribute as the class statement builds it:
\* list(map(os.path.realpath, [...])).
DefaultIgnoreDirs == [i \in 1..Len(IGNORE_NAMES) |-> Realpath(IGNORE_NAMES[i])]

\* fnmatch of a file name against a pattern '*<suffix>'.
Fnmatch(name, pat) == EndsWith(name, Tail(pat))

\* glob(os.path.join(PATH, '**', ext), recursive=True, include_hidden=True):
\* the files at or below PATH whose name matches ext.
Glob(tr, PATH, ext) ==
    { f.path : f \in { g \in FilesOf(tr) : /\ StartsWith(g.path, PATH \o <<"/">>)
                                           /\ Fnmatch(Basename(g.path), ext) } }

\* _find_files: the globbed files that no ignored directory is a substring of.
FoundFiles(tr, PATH, ignore) ==
    LET tmp == UNION { Glob(tr, PATH, FILE_EXTS[i]) : i \in 1..Len(FILE_EXTS) }
    IN  { file_ \in tmp : \A i \in 1..Len(ignore) : ~Contains(ignore[i], file_) }

\* A mutant of TopLevel: the names are kept in full.
TopLevel_Full(names) == names

\* _collect_imports, line 275: 'spam' rather than 'spam.eggs'.
TopLevel(names) == { PartitionHead(i) : i \in names }

\* _collect_imports: the merged imports of the files, reduced to their first
\* segment.
CollectedImports(tr, fs, old) ==
    TopLevel(old \cup UNION { ExtractImports(f) :
                                 f \in {g \in FilesOf(tr) : g.path \in fs} })

\* _define_locals: the parts of the file paths, with and without extension.
DefineLocals(fs) ==
    LET parts == UNION { Range(Split(Normpath(x), "/")) : x \in fs }
        both == parts \cup { SplitextRoot(x) : x \in parts }
    IN  both \ { <<>>, <<".">>, <<".", ".">> }

\* A mutant of CleanedImports: the local names are not subtracted.
CleanedImports_KeepLocals(im, locs, builtins) == im \ builtins

\* A mutant of CleanedImports: the standard-library names are not subtracted.
CleanedImports_KeepBuiltins(im, locs, builtins) == im \ (im \cap locs)

\* _clean_imports, line 251.
CleanedImports(im, locs, builtins) == (im \ builtins) \ (im \cap locs)

\* _clean_imports, line 253: the verification that fails the stage.
CleanCheckFails(im, locs, builtins) == (im \cap locs \cap builtins) # {}

\* importlib.metadata.version(pkg): the version, or None for
\* PackageNotFoundError.
MetadataVersion(env, pkg) ==
    IF pkg = s_requests THEN env.requests
    ELSE IF pkg = s_six THEN env.six
    ELSE IF pkg = s_attr THEN env.attr
    ELSE None

\* _get_installed_version: one pair for each import.
InstalledVersions(env, im) ==
    { <<pkg, IF MetadataVersion(env, pkg) = None THEN UNKNOWN
             ELSE MetadataVersion(env, pkg)>> : pkg \in im }

\* A mutant of TupleLess: the comparison is reversed.
TupleLess_Reversed(a, b) == StrLess(b[1], a[1]) \/ (a[1] = b[1] /\ StrLess(b[2], a[2]))

\* (pkg, ver) < (pkg2, ver2) on tuples of str.
TupleLess(a, b) == StrLess(a[1], b[1]) \/ (a[1] = b[1] /\ StrLess(a[2], b[2]))

\* sorted(iterable): an insertion sort of the elements in iteration order.
RECURSIVE Insert(_, _)
Insert(x, q) ==
    IF q = <<>> THEN <<x>>
    ELSE IF TupleLess(x, Head(q)) THEN <<x>> \o q
    ELSE <<Head(q)>> \o Insert(x, Tail(q))

RECURSIVE InsertAll(_, _)
InsertAll(q, acc) ==
    IF q = <<>> THEN acc ELSE InsertAll(Tail(q), Insert(Head(q), acc))

\* A mutant of Sorted: the pairs stay in iteration order.
Sorted_Unsorted(q) == q

Sorted(q) == InsertAll(q, <<>>)

\* The orders in which a set can be iterated.
Orders(S) ==
    { q \in [1..Cardinality(S) -> S] : \A x \in S : \E i \in DOMAIN q : q[i] = x }

\* datetime.now().astimezone().isoformat(): the clock differs from run to run.
Now(n) == <<"T", CharOrder[Ord("0") + n]>>

\* _write, line 487.
Genby(n) == GENBY_PREFIX \o PreqsVersion \o <<" ", "(">> \o Now(n) \o <<")">>

\* _write, line 490: the pairs that are written.
Writable(ver) == ~Contains(s_Unknown, ver)

\* _write, lines 488-489: the lines 'pkg==ver' of the pairs, in their order.
RECURSIVE ReqLines(_)
ReqLines(q) ==
    IF q = <<>> THEN <<>>
    ELSE (IF Writable(Head(q)[2])
          THEN <<Head(q)[1] \o <<"=", "=">> \o Head(q)[2]>>
          ELSE <<>>) \o ReqLines(Tail(q))

\* _write, lines 488-491.
Content(q, n) ==
    Join(ReqLines(q), <<"\n">>) \o <<"\n", "\n">> \o Genby(n) \o <<"\n">>

\* str.encode(), and open(..., encoding='utf-8').write(), of ASCII text on a
\* POSIX system: one byte for each character.
Encode(text) == text

\* What the file holds once f.write(content) and close() have returned:
\* the bytes written, or a part of them after a short write.
Stored(text) == { Encode(text), SubSeq(Encode(text), 1, Len(text) - 1) }

\* hashlib.md5(b).hexdigest(), without collisions: a digest stands for the
\* bytes it was computed from.
Md5(b) == [md5 |-> b]

\* A mutant of Compare: the digests are not compared.
Compare_Always(text, filebytes) == TRUE

\* _compare
Compare(text, filebytes) == Md5(Encode(text)) = Md5(filebytes)

\* _write, line 481: 'The following requirements were captured:'
CAPTURED ==
    <<"T", "h", "e", " ", "f", "o", "l", "l", "o", "w", "i", "n", "g", " ",
      "r", "e", "q", "u", "i", "r", "e", "m", "e", "n", "t", "s", " ",
      "w", "e", "r", "e", " ", "c", "a", "p", "t", "u", "r", "e", "d", ":">>

\* _write, line 482: '-'*42
DASHES == [i \in 1..42 |-> "-"]

\* str() of a pair of str: ('pkg', 'ver')
Repr(pair) ==
    <<"(", "'">> \o pair[1] \o <<"'", ",", " ", "'">> \o pair[2] \o <<"'", ")">>

\* _write, lines 481-485: the lines print() sends to stdout.
PrintLines(q) ==
    << <<>>, CAPTURED, DASHES >> \o [i \in 1..Len(q) |-> Repr(q[i])] \o << <<>> >>

(***************************************************************************)
(* RequirementCheck (check.py): the strings of the source, and the         *)
(* environment a check is made in.                                         *)
(***************************************************************************)
\* ExCode.ECK_RCFNF and ExCode.ECK_RCNRQ (enums.py)
ECK_RCFNF == 201
ECK_RCNRQ == 202

\* The exceptions a call of check can raise, and none of them.
NoException == "None"
FileNotFoundError == "FileNotFoundError"
ValueError == "ValueError"
InvalidVersion == "InvalidVersion"

\* 'n/a' and the values of the Status field (_collect)
NA == <<"n", "/", "a">>
SAME == <<"S", "a", "m", "e">>
OLDER == <<"O", "l", "d", "e", "r">>
NEWER == <<"N", "e", "w", "e", "r">>
NOT_INSTALLED ==
    <<"N", "o", "t", " ", "i", "n", "s", "t", "a", "l", "l", "e", "d">>

\* The column titles of _report.
H_NAME == <<"N", "a", "m", "e">>
H_REQUIREMENT ==
    <<"R", "e", "q", "u", "i", "r", "e", "m", "e", "n", "t">>
H_INSTALLED ==
    <<"I", "n", "s", "t", "a", "l", "l", "e", "d">>
H_STATUS == <<"S", "t", "a", "t", "u", "s">>

\* Versions of the manifests and of the installed distributions.
v_1_17_0 == <<"1", ".", "1", "7", ".", "0">>
v_0_17_0 == <<"0", ".", "1", "7", ".", "0">>
v_2_9 == <<"2", ".", "9">>

\* The installed-package environments of a check.
CheckEnvironments ==
    { [requests |-> r, six |-> x, attr |-> v_1_0] :
        r \in {None, v_2_9}, x \in {None, v_1_17_0, v_0_17_0} }

\* Lines of a manifest: a comment, a line of white space, requirements as
\* preqs writes them, a requirement with two version clauses, a bare name, a
\* requirement without a version, and one with a wildcard.
l_comment == <<"#", " ", "c">>
l_blank == <<" ">>
l_six ==
    <<"s", "i", "x", "=", "=", "1", ".", "1", "7", ".", "0">>
l_requests ==
    <<"r", "e", "q", "u", "e", "s", "t", "s", "=", "=", "2", ".", "1", "0">>
l_range ==
    <<"s", "i", "x", ">", "=", "1", ".", "0", ",", "<", "=", "2", ".", "0">>
l_bare == <<"s", "i", "x">>
l_noversion ==
    <<"a", "t", "t", "r", "=", "=">>
l_wild ==
    <<"s", "i", "x", "=", "=", "1", ".", "*">>

LinePool ==
    {l_comment, l_blank, l_six, l_requests, l_range, l_bare, l_noversion, l_wild}

\* The largest number of lines of a manifest.
MaxLines == 2

\* The largest number of calls of check in one behaviour.
MaxChecks == 2

\* The text of a file of the given lines.
RECURSIVE TextOf(_)
TextOf(lines) ==
    IF lines = <<>> THEN <<>> ELSE Head(lines) \o <<"\n">> \o TextOf(Tail(lines))

\* The manifests a check can find.
Manifests ==
    { TextOf(q) : q \in UNION { [1..n -> LinePool] : n \in 0..MaxLines } }

\* The paths a RequirementCheck can be given: two directories, the manifest,
\* a module, and a file that does not exist.
ManifestPath == Cwd \o <<"/">> \o REQUIREMENTS_TXT
CheckPaths ==
    { Cwd, <<"/">> \o s_six \o <<"/">> \o s_p, ManifestPath, f_main.path, f_empty.path }

\* os.path.isdir(p): a directory a run can be pointed at, or one that holds
\* a file.
IsDir(tr, p) ==
    \/ p \in Dirs
    \/ \E f \in FilesOf(tr) : StartsWith(f.path, p \o <<"/">>)

\* os.path.exists(p)
Exists(tr, req, p) ==
    \/ IsDir(tr, p)
    \/ \E f \in FilesOf(tr) : f.path = p
    \/ p = ManifestPath /\ req # NoFile

(***************************************************************************)
(* RequirementCheck: the functions of its methods.                         *)
(***************************************************************************)
\* _path_exists, lines 133-134
ResolvedPath(tr, p) == IF IsDir(tr, p) THEN PathJoin(p, REQUIREMENTS_TXT) ELSE p

\* A mutant of IsRequirementsFile: any file is taken for a manifest.
IsRequirementsFile_Any(p) == TRUE

\* _path_exists, line 138
IsRequirementsFile(p) == Basename(p) = REQUIREMENTS_TXT

\* _path_exists: the path it leaves, the exit code it sets (or keeps) and
\* the exception it raises.
PathExists(tr, req, p, code) ==
    LET q == ResolvedPath(tr, p)
    IN  IF ~Exists(tr, req, q)
        THEN [path |-> q, excode |-> ECK_RCFNF, raised |-> FileNotFoundError]
        ELSE IF ~IsRequirementsFile(q)
        THEN [path |-> q, excode |-> ECK_RCNRQ, raised |-> ValueError]
        ELSE [path |-> q, excode |-> code, raised |-> NoException]

\* The lines a text file yields when it is iterated, without their ends.
FileLines(text) ==
    LET p == Split(text, "\n")
    IN  IF p[Len(p)] = <<>> THEN SubSeq(p, 1, Len(p) - 1) ELSE p

\* str.strip()
IsSpace(c) == c \in {" ", "\n"}
RECURSIVE LStrip(_)
LStrip(x) == IF x # <<>> /\ IsSpace(Head(x)) THEN LStrip(Tail(x)) ELSE x
RECURSIVE RStrip(_)
RStrip(x) ==
    IF x # <<>> /\ IsSpace(x[Len(x)]) THEN RStrip(SubSeq(x, 1, Len(x) - 1)) ELSE x
Strip(x) == RStrip(LStrip(x))

\* _read, line 151: filter_
Filter_(x) == x # <<>> /\ ~StartsWith(x, <<"#">>)

\* The characters of the class [><=].
IsOperatorChar(c) == c \in {">", "<", "="}

\* rexp.split(x) for rexp = '^(.*)[><=]+=(.*)$': when the expression matches,
\* the greedy first group ends as late as it can, which leaves the two
\* characters before the second group to '[><=]+='; the pieces are the empty
\* text before the match, the two groups and the empty text after it. When
\* it does not match, the only piece is x.
RexpSplit(x) ==
    LET ends == { j \in 2..Len(x) : x[j] = "=" /\ IsOperatorChar(x[j - 1]) }
    IN  IF ends = {} THEN <<x>>
        ELSE LET j == CHOOSE k \in ends : \A m \in ends : m <= k
             IN  << <<>>, SubSeq(x, 1, j - 2), SubSeq(x, j + 1, Len(x)), <<>> >>

\* _read, line 159: tuple(filter(None, rexp.split(x)))
ParseLine(x) == SelectSeq(RexpSplit(x), LAMBDA piece : piece # <<>>)

\* _read: the value it assigns to _pkgs.
ReadPkgs(text) ==
    LET stripped == [i \in DOMAIN FileLines(text) |-> Strip(FileLines(text)[i])]
        kept == SelectSeq(stripped, Filter_)
    IN  [i \in DOMAIN kept |-> ParseLine(kept[i])]

\* int(digits)
IsDigit(c) == c \in {"0", "1", "2", "3", "4", "5", "6", "7", "8", "9"}
RECURSIVE ParseInt(_)
ParseInt(d) ==
    IF d = <<>> THEN 0
    ELSE ParseInt(SubSeq(d, 1, Len(d) - 1)) * 10 + (Ord(d[Len(d)]) - Ord("0"))

\* packaging.version.Version(v) accepts v: for the version texts of the
\* model, v is a release N(.N)*; every other text of the model raises
\* InvalidVersion.
IsVersion(v) ==
    LET segs == Split(v, ".")
    IN  \A i \in DOMAIN segs :
            segs[i] # <<>> /\ \A k \in DOMAIN segs[i] : IsDigit(segs[i][k])

\* Version(v).release
Release(v) == LET segs == Split(v, ".") IN [i \in DOMAIN segs |-> ParseInt(segs[i])]

\* The comparison of two releases: number by number, a release that has
\* ended counting as zeros.
RECURSIVE ReleaseLess(_, _)
ReleaseLess(a, b) ==
    IF a = <<>> /\ b = <<>> THEN FALSE
    ELSE LET x == IF a = <<>> THEN 0 ELSE Head(a)
             y == IF b = <<>> THEN 0 ELSE Head(b)
         IN  IF x # y THEN x < y
             ELSE ReleaseLess(IF a = <<>> THEN a ELSE Tail(a),
                              IF b = <<>> THEN b ELSE Tail(b))

\* A mutant of VersionLess: the version texts are compared as str.
VersionLess_Lexicographic(a, b) == StrLess(a, b)

\* Version(a) < Version(b)
VersionLess(a, b) == ReleaseLess(Release(a), Release(b))

\* Version(a) == Version(b)
VersionEq(a, b) ==
    ~ReleaseLess(Release(a), Release(b)) /\ ~ReleaseLess(Release(b), Release(a))

\* A mutant of StatusOf: the installed version is taken for the required one.
StatusOf_Swapped(ivers, rvers) ==
    IF VersionEq(ivers, rvers) THEN SAME
    ELSE IF VersionLess(rvers, ivers) THEN OLDER
    ELSE NEWER

\* _collect, lines 110-115
StatusOf(ivers, rvers) ==
    IF VersionEq(ivers, rvers) THEN SAME
    ELSE IF VersionLess(ivers, rvers) THEN OLDER
    ELSE NEWER

\* _collect: the results it has appended to acc when it returns or raises,
\* and the exception it raises: ValueError for an entry that does not unpack
\* into two names, InvalidVersion from Version.
RECURSIVE Collect(_, _, _)
Collect(pkgs, envr, acc) ==
    IF pkgs = <<>> THEN [results |-> acc, raised |-> NoException]
    ELSE LET entry == Head(pkgs)
         IN  IF Len(entry) # 2 THEN [results |-> acc, raised |-> ValueError]
             ELSE LET pkg == entry[1]
                      rvers == entry[2]
                      ivers == MetadataVersion(envr, pkg)
                  IN  IF ivers = None
                      THEN Collect(Tail(pkgs), envr,
                                   Append(acc, <<pkg, rvers, NA, NOT_INSTALLED>>))
                      ELSE IF ~IsVersion(ivers) \/ ~IsVersion(rvers)
                      THEN [results |-> acc, raised |-> InvalidVersion]
                      ELSE Collect(Tail(pkgs), envr,
                                   Append(acc, <<pkg, rvers, ivers,
                                                 StatusOf(ivers, rvers)>>))

\* format(x, '25'): x, padded with spaces to the width.
Pad(x, width) == x \o [i \in 1..(width - Len(x)) |-> " "]

\* _report: the lines it prints.
ReportLines(results) ==
    << <<>>,
       Pad(H_NAME, 25) \o Pad(H_REQUIREMENT, 15) \o Pad(H_INSTALLED, 15) \o H_STATUS,
       [i \in 1..65 |-> "-"] >>
    \o [i \in DOMAIN results |->
            Pad(results[i][1], 25) \o Pad(results[i][2], 15)
            \o Pad(results[i][3], 15) \o results[i][4]]
    \o << <<>> >>

(***************************************************************************)
(* The state.                                                              *)
(***************************************************************************)
VARIABLES
    tree,         \* the files of the file system, by their names in FilePool
    installed,    \* the installed distributions and their versions
    reqfile,      \* the bytes of <PATH>/requirements.txt, or NoFile
    IGNORE_DIRS,  \* Requirements._IGNORE_DIRS, the class attribute
    args,         \* self._args: PATH, print, replace, ignore_dirs
    excode,       \* self._excode
    files,        \* self._files
    imps,         \* self._imps
    reqs,         \* self._reqs
    ofile,        \* self._ofile
    s,            \* run's running boolean
    pc,           \* the statement of run that is next
    stdout,       \* the lines the current run has printed
    status,       \* the exit status of the process, once sys.exit is called
    run,          \* the number of the current Requirements instance
    executed,     \* history: the stages the current run has called, in order,
                  \* each with what it returned
    reqfile0,     \* history: requirements.txt when the current run began
    written,      \* history: the content each _write in file mode built, and
                  \* the ignored directories of its run beyond the default ones
    rc_path,      \* RequirementCheck._path
    rc_pkgs,      \* RequirementCheck._pkgs
    rc_results,   \* RequirementCheck._results
    rc_excode,    \* RequirementCheck._excode
    rc_obj,       \* the number of the current RequirementCheck object
    rc_raised,    \* history: the exception a call of check has raised, if any
    rc_history    \* history: for each call of check that returned, the number
                  \* of the RequirementCheck object and its _results

\* The variables of Requirements and of its process.
rqvars ==
    <<IGNORE_DIRS, args, excode, files, imps, reqs, ofile, s, status, run,
      executed, reqfile0, written>>

\* The variables of RequirementCheck.
rcvars ==
    <<rc_path, rc_pkgs, rc_results, rc_excode, rc_obj, rc_raised, rc_history>>

vars ==
    <<tree, installed, reqfile, IGNORE_DIRS, args, excode, files, imps, reqs,
      ofile, s, pc, stdout, status, run, executed, reqfile0, written,
      rc_path, rc_pkgs, rc_results, rc_excode, rc_obj, rc_raised, rc_history>>

\* The variables no stage of Requirements assigns.
env == <<tree, installed, IGNORE_DIRS, args, status, run, reqfile0, rcvars>>

\* The command lines: PATH, --print, --replace and --ignore_dirs (<<>> when
\* the option is absent). --debug only changes what is logged.
Args ==
    [PATH : Dirs, print : BOOLEAN, replace : BOOLEAN,
     ignore_dirs : {<<>>, <<s_mypkg>>}]

\* _setup_parse_arguments, lines 427-428: the list the class attribute names
\* is extended in place.
SetupIgnoreDirs(cur, a) ==
    IF a.ignore_dirs # <<>>
    THEN cur \o [i \in 1..Len(a.ignore_dirs) |-> Realpath(a.ignore_dirs[i])]
    ELSE cur

\* Requirements.__init__
NewRequirements ==
    /\ excode = ERR_INITL
    /\ files = None
    /\ imps = {}
    /\ reqs = {}
    /\ ofile = None

\* A process that makes no RequirementCheck.
NoRequirementCheck ==
    /\ rc_path = None
    /\ rc_pkgs = <<>>
    /\ rc_results = <<>>
    /\ rc_excode = ERR_INITL
    /\ rc_obj = 0
    /\ rc_raised = NoException
    /\ rc_history = <<>>

\* The files that glob does not look at, those outside PATH, are left out of
\* the file system.
Init ==
    /\ args \in Args
    /\ tree \in {t \in Trees :
                  \A id \in t : StartsWith(SourceFile(id).path, args.PATH \o <<"/">>)}
    /\ installed \in Environments
    /\ reqfile \in {NoFile, OldManifest}
    /\ IGNORE_DIRS = SetupIgnoreDirs(DefaultIgnoreDirs, args)
    /\ NewRequirements
    /\ s = TRUE
    /\ pc = "file_not_exists"
    /\ stdout = <<>>
    /\ status = None
    /\ run = 1
    /\ executed = <<>>
    /\ reqfile0 = reqfile
    /\ written = <<>>
    /\ NoRequirementCheck

(***************************************************************************)
(* Requirements.run, one action for each statement of its body.            *)
(***************************************************************************)
\* The stages in the order run calls them.
Stages ==
    <<"file_not_exists", "startup_msgs", "find_files", "collect_imports",
      "clean_imports", "get_installed_version", "write", "shutdown_msgs">>

\* A mutant of AfterStage: the running boolean is not tested.
AfterStage_Unguarded(stage, ok) ==
    Stages[(CHOOSE i \in 1..Len(Stages) : Stages[i] = stage) + 1]

\* run, lines 226-233: after a stage, the statement that runs next: every
\* 'if s:' is skipped once s is False.
AfterStage(stage, ok) ==
    IF ok
    THEN Stages[(CHOOSE i \in 1..Len(Stages) : Stages[i] = stage) + 1]
    ELSE "shutdown_msgs"

\* A call of a stage and what it returned ("True", "False" or "None"), or
\* Raised when it raised an exception.
Raised == "Raised"
Ret(b) == IF b THEN "True" ELSE "False"
Called(stage, ret) == [stage |-> stage, ret |-> ret]

\* A mutant of FilesOk: an empty file set is not reported.
FilesOk_Always(fs) == TRUE

\* _find_files, line 384: the stage succeeds with a populated file set.
FilesOk(fs) == fs # {}

\* _collect_imports, line 276
ImportsOk(im) == im # {}

\* A mutant of MayWrite: the test of existence is inverted.
MayWrite_Inverted(exists, a) == exists \/ a.replace \/ a.print

\* _file_not_exists, line 337
MayWrite(exists, a) == ~exists \/ a.replace \/ a.print

\* A mutant of file_not_exists: the output file is opened for writing while
\* its path is set.
file_not_exists_opens ==
    /\ pc = "file_not_exists"
    /\ ofile' = PathJoin(args.PATH, REQUIREMENTS_TXT)
    /\ LET ok == MayWrite(reqfile # NoFile, args)
       IN  /\ s' = ok
           /\ excode' = IF ok THEN excode ELSE ERR_EXIST
           /\ stdout' = IF ok THEN stdout ELSE Append(stdout, <<>>)
           /\ pc' = AfterStage("file_not_exists", ok)
           /\ reqfile' = IF ok THEN <<>> ELSE reqfile
    /\ executed' = Append(executed, Called("file_not_exists", Ret(s')))
    /\ UNCHANGED <<env, files, imps, reqs, written>>

file_not_exists ==
    /\ pc = "file_not_exists"
    /\ ofile' = PathJoin(args.PATH, REQUIREMENTS_TXT)
    /\ LET ok == MayWrite(reqfile # NoFile, args)
       IN  /\ s' = ok
           /\ excode' = IF ok THEN excode ELSE ERR_EXIST
           /\ stdout' = IF ok THEN stdout ELSE Append(stdout, <<>>)
           /\ pc' = AfterStage("file_not_exists", ok)
    /\ executed' = Append(executed, Called("file_not_exists", Ret(s')))
    /\ UNCHANGED <<env, reqfile, files, imps, reqs, written>>

\* _startup_msgs: logging only.
startup_msgs ==
    /\ pc = "startup_msgs"
    /\ pc' = AfterStage("startup_msgs", s)
    /\ executed' = Append(executed, Called("startup_msgs", "None"))
    /\ UNCHANGED <<env, reqfile, excode, files, imps, reqs, ofile, s, stdout, written>>

find_files ==
    /\ pc = "find_files"
    /\ files' = FoundFiles(tree, args.PATH, IGNORE_DIRS)
    /\ LET ok == FilesOk(files')
       IN  /\ s' = ok
           /\ excode' = IF ok THEN excode ELSE ERR_FILES
           /\ pc' = AfterStage("find_files", ok)
    /\ executed' = Append(executed, Called("find_files", Ret(s')))
    /\ UNCHANGED <<env, reqfile, imps, reqs, ofile, stdout, written>>

\* _collect_imports when every file parses.
collect_imports ==
    /\ pc = "collect_imports"
    /\ \A f \in FilesOf(tree) : f.path \in files => f.parses
    /\ imps' = CollectedImports(tree, files, imps)
    /\ LET ok == ImportsOk(imps')
       IN  /\ s' = ok
           /\ excode' = IF ok THEN excode ELSE ERR_IMPTS
           /\ pc' = AfterStage("collect_imports", ok)
    /\ executed' = Append(executed, Called("collect_imports", Ret(s')))
    /\ UNCHANGED <<env, reqfile, files, reqs, ofile, stdout, written>>

\* _collect_imports when ast.parse raises SyntaxError on one of the files:
\* the imports of the files read before it have been merged, and run's
\* except clause is next.
collect_imports_raises ==
    /\ pc = "collect_imports"
    /\ \E bad \in {f \in FilesOf(tree) : f.path \in files /\ ~f.parses} :
         \E before \in SUBSET {f \in FilesOf(tree) : f.path \in files /\ f.parses} :
           imps' = imps \cup UNION { ExtractImports(f) : f \in before }
    /\ pc' = "except"
    /\ executed' = Append(executed, Called("collect_imports", Raised))
    /\ UNCHANGED <<env, reqfile, excode, files, reqs, ofile, s, stdout, written>>

clean_imports ==
    /\ pc = "clean_imports"
    /\ LET locs == DefineLocals(files)
           builtins == StdlibModuleNames
       IN  /\ imps' = CleanedImports(imps, locs, builtins)
           /\ LET ok == ~CleanCheckFails(imps', locs, builtins)
              IN  /\ s' = ok
                  /\ excode' = IF ok THEN excode ELSE ERR_CLEAN
                  /\ pc' = AfterStage("clean_imports", ok)
    /\ executed' = Append(executed, Called("clean_imports", Ret(s')))
    /\ UNCHANGED <<env, reqfile, files, reqs, ofile, stdout, written>>

\* A mutant of get_installed_version: success is reported once the versions
\* are known.
get_installed_version_reports_ok ==
    /\ pc = "get_installed_version"
    /\ reqs' = reqs \cup InstalledVersions(installed, imps)
    /\ s' = TRUE
    /\ excode' = GEN_OK
    /\ pc' = AfterStage("get_installed_version", TRUE)
    /\ executed' = Append(executed, Called("get_installed_version", Ret(s')))
    /\ UNCHANGED <<env, reqfile, files, imps, ofile, stdout, written>>

get_installed_version ==
    /\ pc = "get_installed_version"
    /\ reqs' = reqs \cup InstalledVersions(installed, imps)
    /\ s' = TRUE
    /\ pc' = AfterStage("get_installed_version", TRUE)
    /\ executed' = Append(executed, Called("get_installed_version", Ret(s')))
    /\ UNCHANGED <<env, reqfile, excode, files, imps, ofile, stdout, written>>

\* _write with --print
write_print ==
    /\ pc = "write"
    /\ args.print
    /\ \E order \in Orders(reqs) :
         stdout' = stdout \o PrintLines(Sorted(order))
    /\ excode' = GEN_OK
    /\ s' = TRUE
    /\ pc' = AfterStage("write", TRUE)
    /\ executed' = Append(executed, Called("write", Ret(s')))
    /\ UNCHANGED <<env, reqfile, files, imps, reqs, ofile, written>>

\* _write to the file
write_file ==
    /\ pc = "write"
    /\ ~args.print
    /\ \E order \in Orders(reqs) :
         LET content == Content(Sorted(order), run)
         IN  /\ written' = Append(written, [content |-> content,
                                                ignore |-> Range(IGNORE_DIRS)
                                                           \ Range(DefaultIgnoreDirs)])
             /\ reqfile' \in Stored(content)
             /\ LET ok == Compare(content, reqfile')
                IN  /\ s' = ok
                    /\ excode' = IF ok THEN GEN_OK ELSE ERR_WRITE
                    /\ pc' = AfterStage("write", ok)
    /\ executed' = Append(executed, Called("write", Ret(s')))
    /\ UNCHANGED <<env, files, imps, reqs, ofile, stdout>>

\* _write to the file when open raises OSError (the file or its directory
\* cannot be written): the content has been built, the file is as it was, and
\* run's except clause is next.
write_raises ==
    /\ pc = "write"
    /\ ~args.print
    /\ \E order \in Orders(reqs) :
         written' = Append(written, [content |-> Content(Sorted(order), run),
                                     ignore |-> Range(IGNORE_DIRS)
                                                \ Range(DefaultIgnoreDirs)])
    /\ pc' = "except"
    /\ executed' = Append(executed, Called("write", Raised))
    /\ UNCHANGED <<env, reqfile, excode, files, imps, reqs, ofile, s, stdout>>

\* _shutdown_msgs: prints an empty line before the messages it logs.
ShutdownPrints(code, a) ==
    \/ code = GEN_OK /\ ~a.print
    \/ code = ERR_FILES
    \/ code = ERR_IMPTS
    \/ code \notin {GEN_OK, ERR_FILES, ERR_IMPTS, ERR_EXIST}

shutdown_msgs ==
    /\ pc = "shutdown_msgs"
    /\ stdout' = IF ShutdownPrints(excode, args) THEN Append(stdout, <<>>) ELSE stdout
    /\ pc' = "sys_exit"
    /\ executed' = Append(executed, Called("shutdown_msgs", "None"))
    /\ UNCHANGED <<env, reqfile, excode, files, imps, reqs, ofile, s, written>>

\* A mutant of except: the handler reports success.
except_reports_ok ==
    /\ pc = "except"
    /\ stdout' = Append(stdout, <<>>)
    /\ excode' = GEN_OK
    /\ pc' = "sys_exit"
    /\ UNCHANGED <<env, reqfile, files, imps, reqs, ofile, s, executed, written>>

\* run, lines 234-237: the except clause.
except ==
    /\ pc = "except"
    /\ stdout' = Append(stdout, <<>>)
    /\ pc' = "sys_exit"
    /\ UNCHANGED <<env, reqfile, excode, files, imps, reqs, ofile, s, executed, written>>

\* run, line 238: sys.exit(self._excode.value)
sys_exit ==
    /\ pc = "sys_exit"
    /\ status' = excode
    /\ pc' = "exited"
    /\ UNCHANGED <<tree, installed, reqfile, IGNORE_DIRS, args, excode, files, imps,
                   reqs, ofile, s, stdout, run, executed, reqfile0, written, rcvars>>

\* Another Requirements() in the same process, as the tests make one after
\* the other, over the same tree: __init__, then run is called.
Requirements_init ==
    /\ pc = "exited"
    /\ run < MaxRuns
    /\ run' = run + 1
    /\ \E a \in Args :
         /\ a.PATH = args.PATH
         /\ args' = a
         /\ IGNORE_DIRS' = SetupIgnoreDirs(IGNORE_DIRS, a)
    /\ excode' = ERR_INITL
    /\ files' = None
    /\ imps' = {}
    /\ reqs' = {}
    /\ ofile' = None
    /\ s' = TRUE
    /\ pc' = "file_not_exists"
    /\ stdout' = <<>>
    /\ status' = None
    /\ executed' = <<>>
    /\ reqfile0' = reqfile
    /\ UNCHANGED <<tree, installed, reqfile, written, rcvars>>

Next ==
    \/ file_not_exists
    \/ startup_msgs
    \/ find_files
    \/ collect_imports
    \/ collect_imports_raises
    \/ clean_imports
    \/ get_installed_version
    \/ write_print
    \/ write_file
    \/ write_raises
    \/ shutdown_msgs
    \/ except
    \/ sys_exit
    \/ Requirements_init

Spec == Init /\ [][Next]_vars

(***************************************************************************)
(* The verification of _clean_imports (lines 253-256) on its own, applied  *)
(* to import sets and file sets of any kind: in run the subtraction of     *)
(* line 251 always comes before it.                                        *)
(***************************************************************************)
\* A module of the project that has the name of a standard-library module.
p_os == PathJoin(Cwd, <<"o", "s", ".", "p", "y">>)

\* The import names and the files the verification is applied to.
VerifyNames == {s_os, s_sys, s_requests, s_six, s_mypkg, s_attr}
VerifyPaths == {f_main.path, f_sub.path, f_tests.path, p_os}

CleanVerifyInit ==
    /\ tree = {}
    /\ installed = [requests |-> None, six |-> v_1_0, attr |-> v_1_0]
    /\ reqfile = NoFile
    /\ IGNORE_DIRS = DefaultIgnoreDirs
    /\ args = [PATH |-> Cwd, print |-> FALSE, replace |-> FALSE, ignore_dirs |-> <<>>]
    /\ excode = ERR_INITL
    /\ files \in {fs \in SUBSET VerifyPaths : Cardinality(fs) <= MaxFiles}
    /\ imps \in SUBSET VerifyNames
    /\ reqs = {}
    /\ ofile = PathJoin(Cwd, REQUIREMENTS_TXT)
    /\ s = TRUE
    /\ pc = "clean_verify"
    /\ stdout = <<>>
    /\ status = None
    /\ run = 1
    /\ executed = <<>>
    /\ reqfile0 = NoFile
    /\ written = <<>>
    /\ NoRequirementCheck

\* _clean_imports, lines 253-256
clean_verify ==
    /\ pc = "clean_verify"
    /\ LET ok == ~CleanCheckFails(imps, DefineLocals(files), StdlibModuleNames)
       IN  /\ s' = ok
           /\ excode' = IF ok THEN excode ELSE ERR_CLEAN
    /\ pc' = "verified"
    /\ executed' = Append(executed, Called("clean_imports", Ret(s')))
    /\ UNCHANGED <<env, reqfile, files, imps, reqs, ofile, stdout, written>>

CleanVerifyNext == clean_verify

CleanVerifySpec == CleanVerifyInit /\ [][CleanVerifyNext]_vars

(***************************************************************************)
(* RequirementCheck.check, one action for each statement of its body. An   *)
(* exception a statement raises leaves check, whose caller it reaches.     *)
(***************************************************************************)
\* A process that runs no Requirements.
NoRequirements ==
    /\ IGNORE_DIRS = DefaultIgnoreDirs
    /\ args = None
    /\ NewRequirements
    /\ s = TRUE
    /\ status = None
    /\ run = 0
    /\ executed = <<>>
    /\ reqfile0 = reqfile
    /\ written = <<>>

\* RequirementCheck.__init__(path)
NewRequirementCheck(path) ==
    /\ rc_path' = path
    /\ rc_pkgs' = <<>>
    /\ rc_results' = <<>>
    /\ rc_excode' = ERR_INITL

CheckInit ==
    /\ tree = {"main"}
    /\ installed \in CheckEnvironments
    /\ reqfile \in {NoFile} \cup Manifests
    /\ NoRequirements
    /\ rc_path \in CheckPaths
    /\ rc_pkgs = <<>>
    /\ rc_results = <<>>
    /\ rc_excode = ERR_INITL
    /\ rc_obj = 1
    /\ rc_raised = NoException
    /\ rc_history = <<>>
    /\ pc = "path_exists"
    /\ stdout = <<>>

\* check, line 78: self._path_exists()
path_exists ==
    /\ pc = "path_exists"
    /\ LET r == PathExists(tree, reqfile, rc_path, rc_excode)
       IN  /\ rc_path' = r.path
           /\ rc_excode' = r.excode
           /\ rc_raised' = r.raised
           /\ pc' = IF r.raised = NoException THEN "read" ELSE "raised"
    /\ UNCHANGED <<tree, installed, reqfile, stdout, rqvars,
                   rc_pkgs, rc_results, rc_obj, rc_history>>

\* check, line 79: self._read()
read ==
    /\ pc = "read"
    /\ rc_pkgs' = ReadPkgs(reqfile)
    /\ pc' = "collect"
    /\ UNCHANGED <<tree, installed, reqfile, stdout, rqvars,
                   rc_path, rc_results, rc_excode, rc_obj, rc_raised, rc_history>>

\* check, line 80: self._collect()
collect ==
    /\ pc = "collect"
    /\ LET r == Collect(rc_pkgs, installed, rc_results)
       IN  /\ rc_results' = r.results
           /\ rc_raised' = r.raised
           /\ pc' = IF r.raised = NoException THEN "report" ELSE "raised"
    /\ UNCHANGED <<tree, installed, reqfile, stdout, rqvars,
                   rc_path, rc_pkgs, rc_excode, rc_obj, rc_history>>

\* check, lines 81-82: self._report(), then the exit code is set and check
\* returns.
report ==
    /\ pc = "report"
    /\ stdout' = stdout \o ReportLines(rc_results)
    /\ rc_excode' = GEN_OK
    /\ rc_history' = Append(rc_history, [obj |-> rc_obj, results |-> rc_results])
    /\ pc' = "returned"
    /\ UNCHANGED <<tree, installed, reqfile, rqvars,
                   rc_path, rc_pkgs, rc_results, rc_obj, rc_raised>>

\* check is called once more on the object.
check_again ==
    /\ pc = "returned"
    /\ Len(rc_history) < MaxChecks
    /\ pc' = "path_exists"
    /\ stdout' = <<>>
    /\ UNCHANGED <<tree, installed, reqfile, rqvars, rcvars>>

\* Another RequirementCheck(path) is made, and its check is called.
RequirementCheck_init ==
    /\ pc = "returned"
    /\ Len(rc_history) < MaxChecks
    /\ \E path \in CheckPaths : NewRequirementCheck(path)
    /\ rc_obj' = rc_obj + 1
    /\ pc' = "path_exists"
    /\ stdout' = <<>>
    /\ UNCHANGED <<tree, installed, reqfile, rqvars, rc_raised, rc_history>>

CheckNext ==
    \/ path_exists
    \/ read
    \/ collect
    \/ report
    \/ check_again
    \/ RequirementCheck_init

CheckSpec == CheckInit /\ [][CheckNext]_vars

(***************************************************************************)
(* Properties.                                                             *)
(***************************************************************************)
\* The stages the current run has called.
CalledStages == { executed[i].stage : i \in DOMAIN executed }

\* The stage has been called in the current run and has returned ret.
Returned(stage, ret) == \E i \in DOMAIN executed : executed[i] = Called(stage, ret)

\* The import names of the scanned files as the parser returns them, before
\* any reduction.
RawImports ==
    UNION { ExtractImports(f) : f \in {g \in FilesOf(tree) : g.path \in files} }

\* C1: once _clean_imports has run, the import set holds no standard-library
\* name and no name of the local-name set that _define_locals computes from
\* the scanned files.
C1_CleanedDisjoint ==
    "clean_imports" \in CalledStages =>
        /\ imps \cap StdlibModuleNames = {}
        /\ imps \cap DefineLocals(files) = {}

\* C1 witness: _clean_imports has run on imports that held a standard-library
\* name and a local name, and has left an external name.
C1_Witness ==
    /\ "clean_imports" \in CalledStages
    /\ TopLevel(RawImports) \cap StdlibModuleNames # {}
    /\ TopLevel(RawImports) \cap DefineLocals(files) # {}
    /\ imps # {}

\* C2: the set _clean_imports leaves is exactly the import set it was given
\* minus the standard-library names minus the local-name set; and a project
\* that imports os, requests and mypkg.sub, where mypkg is a directory of the
\* project (and requests is no name of its paths), yields exactly {requests}.
C2_ExternalSetExact ==
    /\ [][pc = "clean_imports" =>
            imps' = (imps \ StdlibModuleNames) \ DefineLocals(files)]_vars
    /\ []( ( /\ "clean_imports" \in CalledStages
             /\ RawImports = {s_os, s_requests, s_mypkg_sub}
             /\ \E x \in files : Contains(<<"/">> \o s_mypkg \o <<"/">>, x)
             /\ s_requests \notin DefineLocals(files) )
           => imps = {s_requests} )

\* C2 witness: the scenario has happened.
C2_Witness ==
    /\ "clean_imports" \in CalledStages
    /\ RawImports = {s_os, s_requests, s_mypkg_sub}
    /\ \E x \in files : Contains(<<"/">> \o s_mypkg \o <<"/">>, x)
    /\ imps = {s_requests}

\* The stages that scan, resolve and write.
WorkStages ==
    {"find_files", "collect_imports", "clean_imports", "get_installed_version", "write"}

\* C3: when requirements.txt exists and neither --replace nor --print is
\* given, none of the scanning stages is ever called, the exit code is
\* ERR_EXIST from the check on, and the process exits with 10.
C3_ExistsFailsFast ==
    (reqfile0 # NoFile /\ ~args.replace /\ ~args.print) =>
        /\ CalledStages \cap WorkStages = {}
        /\ "file_not_exists" \in CalledStages => excode = ERR_EXIST /\ ~s
        /\ pc = "exited" => status = ERR_EXIST

\* C3 witness: such a run has exited.
C3_Witness ==
    /\ reqfile0 # NoFile /\ ~args.replace /\ ~args.print
    /\ pc = "exited"
    /\ status = ERR_EXIST
    /\ \E f \in FilesOf(tree) : StartsWith(f.path, args.PATH)

\* The place of a stage in run.
StageIndex(stage) == CHOOSE i \in 1..Len(Stages) : Stages[i] = stage

\* The exit code a stage sets when it reports failure.
FailCode(stage) ==
    CASE stage = "file_not_exists" -> ERR_EXIST
      [] stage = "find_files" -> ERR_FILES
      [] stage = "collect_imports" -> ERR_IMPTS
      [] stage = "clean_imports" -> ERR_CLEAN
      [] stage = "write" -> ERR_WRITE
      [] OTHER -> ERR_INITL

\* C4: in run the stages are called in order and at most once each; a stage
\* other than the finalization is called only after every earlier stage has
\* been called and none has returned False; the stage called after one that
\* returned False is _shutdown_msgs; and a run in which a stage returned False
\* has called _shutdown_msgs when the process exits, with that stage's exit
\* code.
C4_RunningBoolean ==
    /\ \A i, j \in DOMAIN executed :
         i < j => StageIndex(executed[i].stage) < StageIndex(executed[j].stage)
    /\ \A i \in DOMAIN executed :
         executed[i].stage # "shutdown_msgs" =>
            /\ executed[i].stage = Stages[i]
            /\ \A j \in 1..(i - 1) : executed[j].ret # "False"
    /\ \A i \in DOMAIN executed :
         executed[i].ret = "False" =>
            /\ i < Len(executed) => executed[i + 1].stage = "shutdown_msgs"
            /\ pc \in {"sys_exit", "exited"} => i < Len(executed)
            /\ pc = "exited" => status = FailCode(executed[i].stage)

\* C4 witness: a run in which _collect_imports returned False has exited.
C4_Witness ==
    /\ pc = "exited"
    /\ Returned("collect_imports", "False")
    /\ executed[Len(executed)].stage = "shutdown_msgs"

\* C5: _find_files returns True only with a non-empty file set; a run whose
\* scan found no file exits with 20, a run that read its files and found no
\* import in them exits with 30, and the two codes differ.
C5_NoFilesNoImports ==
    /\ Returned("find_files", "True") => files # {}
    /\ ("find_files" \in CalledStages /\ pc = "exited" /\ files = {})
          => status = ERR_FILES
    /\ ( /\ \/ Returned("collect_imports", "True")
            \/ Returned("collect_imports", "False")
         /\ pc = "exited"
         /\ RawImports = {} )
          => status = ERR_IMPTS /\ files # {}
    /\ ERR_FILES # ERR_IMPTS

\* C5 witness: a run that found files without imports has exited with 30.
C5_Witness ==
    /\ pc = "exited"
    /\ status = ERR_IMPTS
    /\ files # {}
    /\ RawImports = {}

\* C6: while the exit code is ERR_EXIST, ERR_FILES or ERR_IMPTS, and when the
\* process has exited with one of them, requirements.txt is what it was when
\* the run began.
C6_NoWriteOnStateError ==
    (excode \in {ERR_EXIST, ERR_FILES, ERR_IMPTS}) => reqfile = reqfile0

\* C6 witness: a run without imports has exited with 30 and there is no
\* requirements.txt, as there was none before.
C6_Witness ==
    /\ pc = "exited"
    /\ status = ERR_IMPTS
    /\ reqfile0 = NoFile
    /\ reqfile = NoFile

\* The pairs of q are in ascending order of package name.
IsAscending(q) ==
    \A i, j \in DOMAIN q : i < j => StrLess(q[i][1], q[j][1])

\* C7: with --print, once _write has run it has returned True, the exit code
\* is 0, stdout holds the pairs of the requirements in ascending order, each
\* once, and requirements.txt is what it was when the run began, whether a
\* file or no file.
C7_PrintOnly ==
    (args.print /\ "write" \in CalledStages) =>
        /\ Returned("write", "True")
        /\ excode = GEN_OK
        /\ pc = "exited" => status = GEN_OK
        /\ reqfile = reqfile0
        /\ \E q \in Orders(reqs) : IsAscending(q) /\ stdout = PrintLines(q)

\* C7 witness: _write has printed two pairs or more while a requirements.txt
\* exists.
C7_Witness ==
    /\ args.print
    /\ "write" \in CalledStages
    /\ reqfile0 # NoFile
    /\ Cardinality(reqs) >= 2

\* The content the _write of the current run built.
LastContent == written[Len(written)].content

\* The requirement lines of a manifest: its lines that are neither empty nor
\* comments.
IsRequirementLine(l) == l # <<>> /\ Head(l) # "#"
ManifestLines(text) == SelectSeq(Split(text, "\n"), IsRequirementLine)

\* The line of a pair.
LineOf(pair) == pair[1] \o <<"=", "=">> \o pair[2]

\* C8 as claimed: without --print, the content _write builds holds exactly
\* one line name==version for each pair whose version is not the sentinel
\* 'Unknown or not installed', in ascending order of package name, and none
\* for a pair with the sentinel; and a write that succeeds replaces whatever
\* the file held.
C8_ManifestBody ==
    (~args.print /\ "write" \in CalledStages) =>
        /\ \E q \in Orders({r \in reqs : r[2] # UNKNOWN}) :
              /\ IsAscending(q)
              /\ ManifestLines(LastContent) = [i \in DOMAIN q |-> LineOf(q[i])]
        /\ Returned("write", "True") => reqfile = Encode(LastContent)

\* C9: without --print, once _write has returned: if the bytes of the file differ
\* from the content that was to be written, _write has returned False, the
\* exit code is ERR_WRITE and the process exits with 60; the exit code is 0
\* only if the bytes of the file are the content.
C9_WriteVerified ==
    (~args.print /\ "write" \in CalledStages /\ ~Returned("write", Raised)) =>
        /\ reqfile # Encode(LastContent) =>
              /\ Returned("write", "False")
              /\ excode = ERR_WRITE
              /\ pc = "exited" => status = ERR_WRITE
        /\ excode = GEN_OK => reqfile = Encode(LastContent)
        /\ (pc = "exited" /\ status = GEN_OK) => reqfile = Encode(LastContent)

\* C9 witness: a short write has been detected and the process has exited
\* with 60.
C9_Witness ==
    /\ ~args.print
    /\ "write" \in CalledStages
    /\ reqfile # Encode(LastContent)
    /\ pc = "exited"
    /\ status = ERR_WRITE

\* f.readlines()[:-1] of a text that ends with a newline: its lines but the
\* last.
AllButLastLine(text) ==
    LET pieces == Split(text, "\n")
    IN  SubSeq(pieces, 1, Len(pieces) - 2)

\* C10: the contents that two runs with the same ignore directories build
\* from the same tree and the same installed packages are the same in every
\* line but the last, whatever the iteration orders of the two runs.
C10_Reproducible ==
    \A i, j \in DOMAIN written :
        (i < j /\ written[i].ignore = written[j].ignore) =>
            AllButLastLine(written[i].content) = AllButLastLine(written[j].content)

\* C10 witness: two runs have written a manifest of two requirements, with
\* different last lines.
C10_Witness ==
    /\ Len(written) = 2
    /\ written[1].ignore = written[2].ignore
    /\ Len(ManifestLines(written[1].content)) >= 2
    /\ written[1].content # written[2].content

\* The files glob finds at or below PATH for the patterns of _FILE_EXTS.
Globbed ==
    { f.path : f \in { g \in FilesOf(tree) :
                         /\ StartsWith(g.path, args.PATH \o <<"/">>)
                         /\ \/ EndsWith(g.path, <<".", "p", "y">>)
                            \/ EndsWith(g.path, <<".", "p", "y", "w">>) } }

\* The components of the directory d are components of the path f, one
\* after the other.
SegmentMatch(d, f) ==
    LET dp == Split(d, "/")
        fp == Split(f, "/")
    IN  \E k \in 0..(Len(fp) - Len(dp)) : SubSeq(fp, k + 1, k + Len(dp)) = dp

\* C15 as claimed: the files _find_files leaves are the globbed files of
\* which no ignored directory is a whole path segment (or run of segments);
\* an ignored directory that is only a substring of a path, as /w/test is of
\* /w/testing/u.pyw, excludes nothing, and a list that matches no file
\* leaves the globbed files as they are.
C15_IgnoreBySegment ==
    "find_files" \in CalledStages =>
        files = { f \in Globbed :
                    \A i \in DOMAIN IGNORE_DIRS : ~SegmentMatch(IGNORE_DIRS[i], f) }

\* C17: once a stage of run has raised an exception, no further stage is
\* called, the except clause of run has the control or has had it, the exit
\* code is still ERR_INITL, and the process exits with 255, not with 0.
C17_ExceptionExits255 ==
    (\E i \in DOMAIN executed : executed[i].ret = Raised) =>
        /\ executed[Len(executed)].ret = Raised
        /\ pc \in {"except", "sys_exit", "exited"}
        /\ excode = ERR_INITL
        /\ pc = "exited" => status = ERR_INITL /\ status # GEN_OK

\* C17 witness: a run in which ast.parse raised SyntaxError has exited with
\* 255.
C17_Witness ==
    /\ Returned("collect_imports", Raised)
    /\ pc = "exited"
    /\ status = ERR_INITL

\* The modules a file names in its import statements and in its from-import
\* statements of level 0.
NamedModules(f) ==
    UNION { CASE f.ast[i].kind = "Import" -> { f.ast[i].names[k] : k \in DOMAIN f.ast[i].names }
              [] f.ast[i].kind = "ImportFrom" /\ f.ast[i].level = 0 -> { f.ast[i].module }
              [] OTHER -> {}
            : i \in DOMAIN f.ast }

\* The first dotted segment of a module name.
FirstSegment(name) == Split(name, ".")[1]

\* C18: when _collect_imports has returned, and until _clean_imports runs,
\* the import set is the set of the first segments of the modules that the
\* scanned files name in import statements and in from-imports of level 0,
\* relative from-imports adding nothing; and from then on no name of the set
\* holds a dot.
C18_TopLevelSegments ==
    (Returned("collect_imports", "True") \/ Returned("collect_imports", "False")) =>
        /\ "clean_imports" \notin CalledStages =>
              imps = { FirstSegment(n) :
                         n \in UNION { NamedModules(f) :
                                         f \in {g \in FilesOf(tree) : g.path \in files} } }
        /\ \A n \in imps : \A k \in DOMAIN n : n[k] # "."

\* C18 witness: _collect_imports has returned for files with a dotted import
\* and a relative from-import, which the parser has returned in full and not
\* at all.
C18_Witness ==
    /\ Returned("collect_imports", "True")
    /\ "clean_imports" \notin CalledStages
    /\ s_mypkg_sub \in RawImports
    /\ s_mypkg \in imps
    /\ f_sub.path \in files

\* The names of the files and directories of the scanned project: the
\* components of the paths of the files from the scan root on, the root
\* itself included, with and without extension.
ProjectNames ==
    LET rel == { SubSeq(x, Len(args.PATH) + 2, Len(x)) : x \in files }
        parts == UNION { Range(Split(x, "/")) : x \in rel } \cup { Basename(args.PATH) }
    IN  parts \cup { SplitextRoot(x) : x \in parts }

\* C20 as claimed: once _clean_imports has run, an imported name that is no
\* standard-library name is missing from the import set only if it is the
\* name of a file or directory at or below the scan root; the name of a
\* directory above the root removes nothing.
C20_LocalsWithinRoot ==
    "clean_imports" \in CalledStages =>
        \A n \in TopLevel(RawImports) :
            (n \notin StdlibModuleNames /\ n \notin ProjectNames) => n \in imps

\* The stages whose success run requires, in the order of their calls.
SuccessStages ==
    <<"file_not_exists", "find_files", "collect_imports", "clean_imports",
      "get_installed_version", "write">>

\* The calls of the current run that are calls of the stages of SuccessStages.
SuccessCalls ==
    SelectSeq(executed, LAMBDA c : c.stage \in Range(SuccessStages))

\* C21: the exit code is GEN_OK, and the process exits with 0, only when
\* _file_not_exists, _find_files, _collect_imports, _clean_imports,
\* _get_installed_version and _write have been called in this order and each
\* has returned True; until _write has returned True the exit code is
\* ERR_INITL or the error code of a stage.
C21_OkOnlyAfterAllStages ==
    /\ (excode = GEN_OK \/ (pc = "exited" /\ status = GEN_OK)) =>
          SuccessCalls = [i \in 1..Len(SuccessStages) |-> Called(SuccessStages[i], "True")]
    /\ ~Returned("write", "True") =>
          /\ excode \in {ERR_INITL, ERR_EXIST, ERR_FILES, ERR_IMPTS, ERR_CLEAN,
                          ERR_VERSN, ERR_WRITE}
          /\ excode # GEN_OK
          /\ pc = "exited" => status # GEN_OK

\* C21 witness: a run that wrote the file has exited with 0.
C21_Witness ==
    /\ pc = "exited"
    /\ status = GEN_OK
    /\ ~args.print
    /\ Returned("write", "True")

\* The ignore list of an instance that earlier instances have left no trace
\* in: the default list and the directories of its own arguments.
OwnIgnoreDirs == SetupIgnoreDirs(DefaultIgnoreDirs, args)

\* C22 as claimed: the ignore list an instance uses is the default list with
\* the directories given to that instance, whatever was given to instances
\* made before it in the process, and the file set its _find_files leaves is
\* the one that list gives.
C22_IgnoreDirsPerInstance ==
    /\ IGNORE_DIRS = OwnIgnoreDirs
    /\ "find_files" \in CalledStages =>
          files = FoundFiles(tree, args.PATH, OwnIgnoreDirs)

FirstCall == \A i \in DOMAIN rc_history : rc_history[i].obj # rc_obj

\* C11: _path_exists turns the path of a directory into
\* <dir>/requirements.txt; if nothing exists at the resolved path it raises
\* FileNotFoundError with the exit code ECK_RCFNF; otherwise, if the resolved
\* path does not end in a component requirements.txt, it raises ValueError
\* with ECK_RCNRQ; otherwise it returns and leaves the exit code as it was,
\* ERR_INITL on an object whose check has not returned before.
C11_PathExists ==
    [][pc = "path_exists" =>
        LET resolved == IF IsDir(tree, rc_path)
                        THEN rc_path \o <<"/">> \o REQUIREMENTS_TXT
                        ELSE rc_path
        IN  /\ rc_path' = resolved
            /\ IF ~Exists(tree, reqfile, resolved)
               THEN /\ rc_raised' = FileNotFoundError
                    /\ rc_excode' = ECK_RCFNF
                    /\ pc' = "raised"
               ELSE IF ~EndsWith(resolved, <<"/">> \o REQUIREMENTS_TXT)
               THEN /\ rc_raised' = ValueError
                    /\ rc_excode' = ECK_RCNRQ
                    /\ pc' = "raised"
               ELSE /\ rc_raised' = NoException
                    /\ rc_excode' = rc_excode
                    /\ FirstCall => rc_excode' = ERR_INITL
                    /\ pc' = "read"]_vars

\* C11 witness: the path of a directory without a manifest has been resolved
\* and FileNotFoundError has been raised.
C11_Witness ==
    /\ pc = "raised"
    /\ rc_path = <<"/">> \o s_six \o <<"/">> \o s_p \o <<"/">> \o REQUIREMENTS_TXT
    /\ rc_raised = FileNotFoundError
    /\ rc_excode = ECK_RCFNF

\* The number a release has at a place, zero past its end.
NumberAt(r, i) == IF i <= Len(r) THEN r[i] ELSE 0

\* The semantic order of two versions: "lt", "eq" or "gt", by the first place
\* at which their releases differ.
SemanticOrder(a, b) ==
    LET ra == Release(a)
        rb == Release(b)
        differ == { i \in 1..(Len(ra) + Len(rb)) : NumberAt(ra, i) # NumberAt(rb, i) }
    IN  IF differ = {} THEN "eq"
        ELSE LET k == CHOOSE i \in differ : \A j \in differ : i <= j
             IN  IF NumberAt(ra, k) < NumberAt(rb, k) THEN "lt" ELSE "gt"

\* The result the claim gives for a pair.
ExpectedResult(pair) ==
    LET ivers == MetadataVersion(installed, pair[1])
    IN  IF ivers = None THEN <<pair[1], pair[2], NA, NOT_INSTALLED>>
        ELSE <<pair[1], pair[2], ivers,
               CASE SemanticOrder(ivers, pair[2]) = "eq" -> SAME
                 [] SemanticOrder(ivers, pair[2]) = "lt" -> OLDER
                 [] SemanticOrder(ivers, pair[2]) = "gt" -> NEWER>>

\* The entry is a pair whose version a comparison can be made with.
IsComparablePair(entry) ==
    /\ Len(entry) = 2
    /\ MetadataVersion(installed, entry[1]) # None => IsVersion(entry[2])

\* C12: a _collect that returns has appended to _results one result for each
\* entry of _pkgs, in the order of _pkgs: (package, required, installed,
\* status) with Same, Older or Newer by the semantic order of the installed
\* and the required version, and (package, required, 'n/a', 'Not installed')
\* for a package that is not installed; and _collect returns when every
\* entry is a pair with a version.
C12_CollectResults ==
    [][pc = "collect" =>
        /\ pc' = "report" =>
              rc_results' =
                 rc_results \o [i \in DOMAIN rc_pkgs |-> ExpectedResult(rc_pkgs[i])]
        /\ (\A i \in DOMAIN rc_pkgs : IsComparablePair(rc_pkgs[i])) => pc' = "report"
      ]_vars

\* C12 witness: _collect has returned with a package that is not installed
\* and, after it, one whose installed version 2.9 is older than the required
\* 2.10.
C12_Witness ==
    /\ pc = "report"
    /\ rc_results = << <<s_six, v_1_17_0, NA, NOT_INSTALLED>>,
                       <<s_requests, v_2_10, v_2_9, OLDER>> >>

\* The manifest holds the one line six==1.17.0, and the results are those of
\* one call of check.
SixScenario ==
    /\ reqfile = TextOf(<<l_six>>)
    /\ \/ pc = "report" /\ FirstCall
       \/ pc = "returned" /\ Cardinality({i \in DOMAIN rc_history :
                                            rc_history[i].obj = rc_obj}) = 1

\* C13 (amended): for the manifest line six==1.17.0 the checker reports Same
\* when 1.17.0 is installed, Older when 0.17.0 is installed, and Not
\* installed, with n/a for the installed version, when six is absent.
C13_SixScenario ==
    SixScenario =>
        rc_results =
           << CASE installed.six = v_1_17_0 -> <<s_six, v_1_17_0, v_1_17_0, SAME>>
                [] installed.six = v_0_17_0 -> <<s_six, v_1_17_0, v_0_17_0, OLDER>>
                [] installed.six = None -> <<s_six, v_1_17_0, NA, NOT_INSTALLED>> >>

\* C13 as claimed: Newer is reported when 0.17.0 is installed.
C13_SixScenarioAsClaimed ==
    SixScenario =>
        rc_results =
           << CASE installed.six = v_1_17_0 -> <<s_six, v_1_17_0, v_1_17_0, SAME>>
                [] installed.six = v_0_17_0 -> <<s_six, v_1_17_0, v_0_17_0, NEWER>>
                [] installed.six = None -> <<s_six, v_1_17_0, NA, NOT_INSTALLED>> >>

\* C13 witness: check has returned for the line with 0.17.0 installed.
C13_Witness ==
    /\ SixScenario
    /\ pc = "returned"
    /\ installed.six = v_0_17_0
    /\ rc_results[1][4] = OLDER

\* C14 as claimed: every call of check that returns leaves the same result
\* list, on a new object or on the same one, the manifest and the installed
\* packages being the same.
C14_CheckIdempotent ==
    \A i, j \in DOMAIN rc_history : rc_history[i].results = rc_history[j].results

\* The lines of the manifest that _read is to keep, stripped: those that are
\* not blank and do not start with '#'.
KeptLines ==
    LET lines == FileLines(reqfile)
    IN  SelectSeq([i \in DOMAIN lines |-> Strip(lines[i])],
                  LAMBDA x : x # <<>> /\ x[1] # "#")

\* The places where a comparison operator, one or more of the characters
\* '>', '<', '=' and then '=', starts in x, and the place where the longest
\* operator that starts at i ends.
OperatorStarts(x) ==
    { i \in DOMAIN x :
        \E j \in (i + 1)..Len(x) :
            x[j] = "=" /\ \A k \in i..j : IsOperatorChar(x[k]) }
OperatorEnd(x, i) ==
    CHOOSE j \in (i + 1)..Len(x) :
        /\ x[j] = "=" /\ \A k \in i..j : IsOperatorChar(x[k])
        /\ \A m \in (j + 1)..Len(x) :
              ~(x[m] = "=" /\ \A k \in i..m : IsOperatorChar(x[k]))

\* The text before the first operator of x, and the text after it.
FirstOperator(x) == CHOOSE i \in OperatorStarts(x) : \A j \in OperatorStarts(x) : i <= j
NameBeforeFirst(x) == SubSeq(x, 1, FirstOperator(x) - 1)
SpecAfterFirst(x) == SubSeq(x, OperatorEnd(x, FirstOperator(x)) + 1, Len(x))

\* C16 as claimed: _read leaves in _pkgs one entry for each line that is
\* neither blank nor a comment, in their order, and the entry of a line with
\* a comparison operator between a name and a version is (name, versionSpec),
\* the text before the first operator of the line and the text after it.
C16_ReadSplitsAtFirstOperator ==
    pc = "collect" =>
        /\ Len(rc_pkgs) = Len(KeptLines)
        /\ \A i \in DOMAIN KeptLines :
              ( /\ OperatorStarts(KeptLines[i]) # {}
                /\ NameBeforeFirst(KeptLines[i]) # <<>>
                /\ SpecAfterFirst(KeptLines[i]) # <<>> )
              => rc_pkgs[i] = <<NameBeforeFirst(KeptLines[i]), SpecAfterFirst(KeptLines[i])>>

\* C23 as claimed: every entry _read leaves in _pkgs, one for each line that
\* is neither blank nor a comment, is a pair (name, versionSpec) of two
\* non-empty texts, a bare name and a line without a version included, and
\* the tuple unpacking of _collect raises for none of them.
C23_ReadEntriesArePairs ==
    /\ pc \in {"collect", "report", "returned"} =>
          /\ Len(rc_pkgs) = Len(KeptLines)
          /\ \A i \in DOMAIN rc_pkgs :
                Len(rc_pkgs[i]) = 2 /\ rc_pkgs[i][1] # <<>> /\ rc_pkgs[i][2] # <<>>
    /\ (pc = "raised" /\ rc_raised = ValueError) => rc_excode = ECK_RCNRQ

====
